---------------------------- MODULE Spec2Model ----------------------------
(***************************************************************************)
(* ConnectorSlack (src/slack.py): the connection lifecycle (connect,       *)
(* reconnect, keepalive_websocket) and the inbound pipeline (listen,       *)
(* lookup_username, replace_usernames) as cooperating asyncio tasks.       *)
(*                                                                         *)
(* One step of the model is what one task runs between two suspension      *)
(* points (an await that reaches the network, a sleep or the consumer):    *)
(* asyncio never switches tasks anywhere else, so a call that returns, an  *)
(* exception that unwinds and a finally clause all happen inside the step  *)
(* that resumes the task.                                                  *)
(*                                                                         *)
(* Task 0 is the task that runs connect() at start-up and then listen();   *)
(* tasks 1..MaxHB are the slots of keepalive_websocket tasks.              *)
(***************************************************************************)
EXTENDS Integers, Sequences, FiniteSets, TLC

(***************************************************************************)
(* Bounds of the model                                                     *)
(***************************************************************************)
\* handles that websockets.connect may open in one run
MaxEpoch == 3
\* nested reconnect calls in one task (reconnect -> connect -> reconnect ...)
MaxDepth == 2
\* frames that recv() may deliver in one run
MaxFrames == 2
\* pings the heartbeat may send in one run
MaxPings == 1
\* slots for keepalive_websocket tasks
MaxHB == 2
\* pieces (characters or whole tokens) of the texts replace_usernames is
\* applied to in SpecText
MaxPieces == 4

(***************************************************************************)
(* Program constants                                                       *)
(***************************************************************************)
\* reconnect(delay=None): no sleep at all
NoDelay == -1
\* mutant of ConnectDelay: connect retries at once
ConnectDelayNone == NoDelay
\* connect: await self.reconnect(10)
ConnectDelay == 10
\* mutant of ListenDelay: listen reconnects with connect's delay
ListenDelayOfConnect == ConnectDelay
\* listen: await self.reconnect(5)
ListenDelay == 5

Listener == 0
HB == 1..MaxHB
Tasks == {Listener} \cup HB

(***************************************************************************)
(* Texts are sequences of characters.                                      *)
(***************************************************************************)
\* the characters [A-Z0-9] of the pattern that occur in the model
IdChars == {"U", "V"}

\* "<@{userid}>".format(userid=userid)
Token(userid) == <<"<", "@">> \o userid \o <<">">>

\* the length of the longest run of [A-Z0-9] characters of s starting at i
RECURSIVE RunLen(_, _)
RunLen(s, i) ==
    IF i <= Len(s) /\ s[i] \in IdChars THEN 1 + RunLen(s, i + 1) ELSE 0

\* re.findall(r"\<\@([A-Z0-9]+)\>", s) scanning from position i: the groups of
\* the leftmost, non-overlapping matches, in order.  The run is greedy and
\* ">" is no [A-Z0-9] character, so a match at i needs ">" right after the
\* longest run.
RECURSIVE FindAllFrom(_, _)
FindAllFrom(s, i) ==
    IF i > Len(s) THEN <<>>
    ELSE LET n == RunLen(s, i + 2)
         IN  IF /\ s[i] = "<"
                /\ i + 1 <= Len(s) /\ s[i + 1] = "@"
                /\ n >= 1
                /\ i + 2 + n <= Len(s) /\ s[i + 2 + n] = ">"
             THEN <<SubSeq(s, i + 2, i + 1 + n)>> \o FindAllFrom(s, i + 3 + n)
             ELSE FindAllFrom(s, i + 1)

\* mutant of FindAll: only the first match is taken (re.search for re.findall)
FindFirst(s) ==
    IF FindAllFrom(s, 1) = <<>> THEN <<>> ELSE <<Head(FindAllFrom(s, 1))>>

FindAll(s) == FindAllFrom(s, 1)

\* str.replace(old, new) from position i: every leftmost, non-overlapping
\* occurrence of old (not empty) is replaced by new
RECURSIVE ReplaceFrom(_, _, _, _)
ReplaceFrom(s, old, new, i) ==
    IF i + Len(old) - 1 > Len(s) THEN SubSeq(s, i, Len(s))
    ELSE IF SubSeq(s, i, i + Len(old) - 1) = old
         THEN new \o ReplaceFrom(s, old, new, i + Len(old))
         ELSE <<s[i]>> \o ReplaceFrom(s, old, new, i + 1)

StrReplace(s, old, new) == ReplaceFrom(s, old, new, 1)


(***************************************************************************)
(* The environment: what the transport and the REST calls may answer       *)
(***************************************************************************)
\* user identifiers and the display names users.info may report
Users == {<<"U">>, <<"V">>}
Names == {<<"a">>, <<"b">>}

\* response.body["user"] of users.info: a dict with a name, or something else
NonRecord == [notadict |-> TRUE]
Payloads == {[name |-> n] : n \in Names} \cup {NonRecord}

\* the texts and channels of the frames the transport delivers
Texts == {<<"h">>, Token(<<"U">>), Token(<<"V">>) \o Token(<<"V">>)}
Channels == {"C1", "C2"}

\* A parsed frame (json.loads(content)) is a dict: text and channel are always
\* there, type, user and subtype may each be missing.
FullFrames ==
    [type : {"message", "pong"}, user : Users,
     subtype : {"bot_message", "me_message"}, text : Texts, channel : Channels]
Optional == {"type", "user", "subtype"}
Frames ==
    {[k \in (DOMAIN f) \ drop |-> f[k]] : f \in FullFrames, drop \in SUBSET Optional}

(***************************************************************************)
(* State                                                                   *)
(***************************************************************************)
VARIABLES
    reconnecting,   \* self.reconnecting
    ws,             \* self.ws: the handle websockets.connect returned last (0: not set)
    keepalive,      \* self.keepalive: the task slot it refers to (0: None)
    message_id,     \* self._message_id
    known_users,    \* self.known_users: userid -> user_info
    pc,             \* per task: the await it is suspended at, or how it ended
    stack,          \* per task: the delays of its reconnect() calls in progress
    cws,            \* per task: the handle its pending recv()/send() was called on
    m,              \* listen: the frame being processed
    user_info,      \* listen: the sender's record
    repl,           \* replace_usernames: message and the userids still to do
    message,        \* listen: the Message handed to opsdroid.parse
    parsed,         \* the calls of opsdroid.parse: frame number and whether it returned
    received,       \* the number of frames recv() has returned
    lookups,        \* the lookup_username calls made for the frame received last
                    \* (cleared once its Message has been consumed)
    texts           \* SpecText: a text and what replace_usernames made of it

vars == <<reconnecting, ws, keepalive, message_id, known_users, pc, stack, cws,
          m, user_info, repl, message, parsed, received, lookups, texts>>

pipe == <<m, user_info, repl, message, parsed, received, lookups, known_users,
          texts>>

NoFrame == [none |-> TRUE]
NoInfo == [none |-> TRUE]
NoMessage == [none |-> TRUE]
NoRepl == [message |-> <<>>, userids |-> <<>>]

\* __init__
Init ==
    /\ reconnecting = FALSE
    /\ ws = 0
    /\ keepalive = 0
    /\ message_id = 0
    /\ known_users = [u \in {} |-> NoInfo]
    /\ pc = [t \in Tasks |-> IF t = Listener THEN "start" ELSE "none"]
    /\ stack = [t \in Tasks |-> <<>>]
    /\ cws = [t \in Tasks |-> 0]
    /\ m = NoFrame
    /\ user_info = NoInfo
    /\ repl = NoRepl
    /\ message = NoMessage
    /\ parsed = <<>>
    /\ received = 0
    /\ lookups = <<>>
    /\ texts = <<>>

(***************************************************************************)
(* connect and reconnect, run by task t                                    *)
(***************************************************************************)
\* a task has finished: Task.done()
Done(t) == pc[t] = "raised"

\* where a task resumes once its connect() or reconnect() call has returned:
\* listen calls recv(), keepalive_websocket sleeps
LoopTop(t) == IF t = Listener THEN "recv" ELSE "sleep"

\* mutant of Finally: reconnect() has no finally clause
FinallyMissing(stk) == reconnecting

\* the finally clause of every reconnect() the task is in: the flag after the
\* calls on stk have all exited
Finally(stk) == IF stk = <<>> THEN reconnecting ELSE FALSE

\* the task whose connect() is called first
Start ==
    /\ pc[Listener] = "start"
    /\ pc' = [pc EXCEPT ![Listener] = "rtm_start"]
    /\ UNCHANGED <<reconnecting, ws, keepalive, message_id, stack, cws>>
    /\ UNCHANGED pipe

\* slack.rtm.start() answers: connect goes on to websockets.connect
RtmStartOk(t) ==
    /\ pc[t] = "rtm_start"
    /\ pc' = [pc EXCEPT ![t] = "ws_connect"]
    /\ UNCHANGED <<reconnecting, ws, keepalive, message_id, stack, cws>>
    /\ UNCHANGED pipe

\* the handshake raises aiohttp.errors.ClientOSError: reconnect(10) is called,
\* sets the flag and sleeps
RtmStartClientOSError(t) ==
    /\ pc[t] = "rtm_start"
    /\ Len(stack[t]) < MaxDepth
    /\ reconnecting' = TRUE
    /\ stack' = [stack EXCEPT ![t] = Append(@, ConnectDelay)]
    /\ pc' = [pc EXCEPT ![t] = "reconnect_sleep"]
    /\ UNCHANGED <<ws, keepalive, message_id, cws>>
    /\ UNCHANGED pipe

\* an exception leaves connect(): it passes the finally clause of every
\* reconnect() of the task and ends the task
Raise(t) ==
    /\ reconnecting' = Finally(stack[t])
    /\ stack' = [stack EXCEPT ![t] = <<>>]
    /\ pc' = [pc EXCEPT ![t] = "raised"]

\* the handshake raises anything else
RtmStartRaises(t) ==
    /\ pc[t] = "rtm_start"
    /\ Raise(t)
    /\ UNCHANGED <<ws, keepalive, message_id, cws>>
    /\ UNCHANGED pipe

\* websockets.connect raises an error of the protocol (InvalidURI,
\* InvalidHandshake): no ClientOSError
WsConnectRaises(t) ==
    /\ pc[t] = "ws_connect"
    /\ Raise(t)
    /\ UNCHANGED <<ws, keepalive, message_id, cws>>
    /\ UNCHANGED pipe

\* websockets.connect raises an error of the network (an OSError of the
\* socket: connection refused, name not resolved, timed out).  It is raised
\* inside the try of connect, but it is no aiohttp ClientOSError, so line 58
\* does not catch it.
WsConnectOSError(t) ==
    /\ pc[t] = "ws_connect"
    /\ Raise(t)
    /\ UNCHANGED <<ws, keepalive, message_id, cws>>
    /\ UNCHANGED pipe

\* asyncio.sleep(delay) of reconnect is over: connect() is called
ReconnectSleepDone(t) ==
    /\ pc[t] = "reconnect_sleep"
    /\ pc' = [pc EXCEPT ![t] = "rtm_start"]
    /\ UNCHANGED <<reconnecting, ws, keepalive, message_id, stack, cws>>
    /\ UNCHANGED pipe

\* mutant of HandleOfRecv: listen keeps the handle it received on first
HandleOfRecvKept(current, held) == IF held = 0 THEN current ELSE held

\* line 77, self.ws.recv(): the handle recv() is called on is the one self.ws
\* names at the call (current), whatever handle the last recv() was called
\* on (held)
HandleOfRecv(current, held) == current

\* mutant of KeepaliveIdle: connect starts a heartbeat every time
KeepaliveIdleAlways == TRUE

\* connect, line 54: self.keepalive is None or self.keepalive.done()
KeepaliveIdle == keepalive = 0 \/ Done(keepalive)

\* the slot create_task puts a new keepalive_websocket task in
FreeSlots == {h \in HB : pc[h] \in {"none", "raised"}}
NewSlot == CHOOSE h \in FreeSlots : \A g \in FreeSlots : h <= g

\* websockets.connect returns a new handle: self.ws is set, the heartbeat is
\* started if none runs, connect() returns and so does every reconnect() of
\* the task; the task goes back to its loop.
WsConnectOk(t) ==
    /\ pc[t] = "ws_connect"
    /\ ws < MaxEpoch
    /\ ws' = ws + 1
    /\ reconnecting' = Finally(stack[t])
    /\ stack' = [stack EXCEPT ![t] = <<>>]
    /\ cws' = [cws EXCEPT ![t] = IF t = Listener THEN HandleOfRecv(ws', @) ELSE @]
    /\ IF KeepaliveIdle /\ FreeSlots # {}
       THEN /\ keepalive' = NewSlot
            /\ pc' = [pc EXCEPT ![t] = LoopTop(t), ![NewSlot] = "sleep"]
       ELSE /\ keepalive' = keepalive
            /\ pc' = [pc EXCEPT ![t] = LoopTop(t)]
    /\ UNCHANGED message_id
    /\ UNCHANGED pipe

(***************************************************************************)
(* keepalive_websocket, run by the task in slot h                          *)
(***************************************************************************)
\* asyncio.sleep(60) is over: the counter is incremented and the ping sent
\* on the handle self.ws names now
KeepaliveWake(h) ==
    /\ pc[h] = "sleep"
    /\ message_id < MaxPings
    /\ message_id' = message_id + 1
    /\ cws' = [cws EXCEPT ![h] = ws]
    /\ pc' = [pc EXCEPT ![h] = "send"]
    /\ UNCHANGED <<reconnecting, ws, keepalive, stack>>
    /\ UNCHANGED pipe

\* ws.send returns
SendOk(h) ==
    /\ pc[h] = "send"
    /\ pc' = [pc EXCEPT ![h] = "sleep"]
    /\ UNCHANGED <<reconnecting, ws, keepalive, message_id, stack, cws>>
    /\ UNCHANGED pipe

\* line 128: if not self.reconnecting
MayReconnect == ~reconnecting

\* ws.send raises InvalidState, ConnectionClosed, ClientOSError or
\* TimeoutError: reconnect() with no delay unless the flag is set; without a
\* delay reconnect goes straight into connect()
SendFails(h) ==
    /\ pc[h] = "send"
    /\ IF MayReconnect
       THEN /\ reconnecting' = TRUE
            /\ stack' = [stack EXCEPT ![h] = <<NoDelay>>]
            /\ pc' = [pc EXCEPT ![h] = "rtm_start"]
       ELSE /\ pc' = [pc EXCEPT ![h] = "sleep"]
            /\ UNCHANGED <<reconnecting, stack>>
    /\ UNCHANGED <<ws, keepalive, message_id, cws>>
    /\ UNCHANGED pipe


(***************************************************************************)
(* lookup_username and replace_usernames                                   *)
(***************************************************************************)
\* line 138: type(user_info) is dict
IsDict(payload) == "name" \in DOMAIN payload

\* mutant of Cached: the cache is never consulted
CachedNever(userid, cache) == FALSE

\* line 133: userid in self.known_users
Cached(userid, cache) == userid \in DOMAIN cache

\* the network calls one lookup_username(userid) makes: users.info is called
\* when the userid is not cached
InfoCalls(userid, cache) == IF Cached(userid, cache) THEN 0 ELSE 1

\* what lookup_username(userid) adds to the calls made for this frame
Lookup(userid, cache) ==
    [userid |-> userid, cached |-> Cached(userid, cache),
     calls |-> InfoCalls(userid, cache)]

\* mutant of Store: the new entry replaces the cache
StoreAlone(cache, userid, info) == [u \in {userid} |-> info]

\* line 139: self.known_users[userid] = user_info
Store(cache, userid, info) ==
    [u \in (DOMAIN cache) \cup {userid} |-> IF u = userid THEN info ELSE cache[u]]

\* mutant of Rejected: the payload is stored before its type is tested
RejectedStored(cache, userid, payload) == Store(cache, userid, payload)

\* lines 140-141: the cache after a lookup of userid whose payload is no
\* dict: ValueError is raised and nothing is stored
Rejected(cache, userid, payload) == cache

\* lines 148-149: one turn of the loop of replace_usernames
Substitute(msg, userid, info) == StrReplace(msg, Token(userid), info.name)

\* The loop of replace_usernames from the state (msg, ids) on, as far as it
\* runs without suspending: a cached userid is replaced at once, the first
\* one that is not cached makes lookup_username await users.info.
RECURSIVE ReplaceLoop(_, _, _, _)
ReplaceLoop(msg, ids, cache, log) ==
    IF ids = <<>> THEN [message |-> msg, userids |-> <<>>, lookups |-> log]
    ELSE LET log2 == Append(log, Lookup(Head(ids), cache))
         IN  IF Cached(Head(ids), cache)
             THEN ReplaceLoop(Substitute(msg, Head(ids), cache[Head(ids)]),
                              Tail(ids), cache, log2)
             ELSE [message |-> msg, userids |-> ids, lookups |-> log2]

\* mutant of Message: the sender is the userid, not the name looked up
MessageFromUserid(frame, info) ==
    [text |-> frame.text, user |-> frame.user, room |-> frame.channel]

\* line 100: Message(m["text"], user_info["name"], m["channel"], self)
Message(frame, info) ==
    [text |-> frame.text, user |-> info.name, room |-> frame.channel]

\* line 101: opsdroid.parse(message) is called for the frame received last
Deliver(calls, n) == Append(calls, [frame |-> n, returned |-> FALSE])

\* mutant of AwaitParse: the call is started and not awaited
ParseNotAwaited == "recv"

\* line 101: the call is awaited, listen is suspended until it returns
AwaitParse == "parse"

(***************************************************************************)
(* listen, run by task 0                                                   *)
(***************************************************************************)
\* line 83
Eligible(frame) ==
    /\ "type" \in DOMAIN frame
    /\ frame.type = "message"
    /\ "user" \in DOMAIN frame

\* mutant of IsBotMessage: the subtype is not looked at
IsBotMessageNever(frame) == FALSE

\* line 86
IsBotMessage(frame) == "subtype" \in DOMAIN frame /\ frame.subtype = "bot_message"

Promoted(frame) == Eligible(frame) /\ ~IsBotMessage(frame)

\* listen goes back to line 77: recv() is called on the handle self.ws names
\* now, and the locals of the last turn are dead
NextRecv ==
    /\ pc' = [pc EXCEPT ![Listener] = "recv"]
    /\ cws' = [cws EXCEPT ![Listener] = HandleOfRecv(ws, @)]
    /\ m' = NoFrame
    /\ user_info' = NoInfo
    /\ repl' = NoRepl

\* Lines 96-101 with the sender's record info: replace_usernames(m["text"])
\* from the state (msg, ids) of its loop, then the Message and opsdroid.parse,
\* up to the first await that suspends.
ReplaceAndParse(frame, info, msg, ids, cache, log) ==
    LET r == ReplaceLoop(msg, ids, cache, log)
    IN  /\ lookups' = r.lookups
        /\ user_info' = info
        /\ cws' = cws
        /\ IF r.userids = <<>>
           THEN /\ m' = [frame EXCEPT !.text = r.message]
                /\ repl' = NoRepl
                /\ message' = Message(m', info)
                /\ parsed' = Deliver(parsed, received')
                /\ pc' = [pc EXCEPT ![Listener] = AwaitParse]
           ELSE /\ m' = frame
                /\ repl' = [message |-> r.message, userids |-> r.userids]
                /\ pc' = [pc EXCEPT ![Listener] = "users_info"]
                /\ UNCHANGED <<message, parsed>>

\* recv() returns a frame that json.loads parses
RecvFrame(frame) ==
    /\ pc[Listener] = "recv"
    /\ received < MaxFrames
    /\ received' = received + 1
    /\ IF ~Promoted(frame)
       THEN /\ NextRecv
            /\ lookups' = <<>>
            /\ UNCHANGED <<message, parsed>>
       ELSE IF Cached(frame.user, known_users)
       THEN ReplaceAndParse(frame, known_users[frame.user], frame.text,
                            FindAll(frame.text), known_users,
                            <<Lookup(frame.user, known_users)>>)
       ELSE /\ m' = frame
            /\ lookups' = <<Lookup(frame.user, known_users)>>
            /\ pc' = [pc EXCEPT ![Listener] = "sender_info"]
            /\ UNCHANGED <<cws, user_info, repl, message, parsed>>
    /\ UNCHANGED <<reconnecting, ws, keepalive, message_id, stack, known_users>>
    /\ UNCHANGED texts

\* recv() raises ConnectionClosed: reconnect(5) sets the flag and sleeps
RecvClosed ==
    /\ pc[Listener] = "recv"
    /\ reconnecting' = TRUE
    /\ stack' = [stack EXCEPT ![Listener] = <<ListenDelay>>]
    /\ pc' = [pc EXCEPT ![Listener] = "reconnect_sleep"]
    /\ UNCHANGED <<ws, keepalive, message_id, cws>>
    /\ UNCHANGED pipe

\* mutant of RecvMalformed: content that does not parse is handled like a
\* closed connection
RecvMalformedReconnects == RecvClosed

\* recv() returns content that json.loads rejects: the error leaves listen
RecvMalformed ==
    /\ pc[Listener] = "recv"
    /\ Raise(Listener)
    /\ UNCHANGED <<ws, keepalive, message_id, cws>>
    /\ UNCHANGED pipe

\* users.info answers the lookup of the sender (line 92)
SenderInfo(payload) ==
    /\ pc[Listener] = "sender_info"
    /\ received' = received
    /\ IF IsDict(payload)
       THEN /\ known_users' = Store(known_users, m.user, payload)
            /\ ReplaceAndParse(m, payload, m.text, FindAll(m.text),
                               known_users', lookups)
       ELSE /\ known_users' = Rejected(known_users, m.user, payload)
            /\ NextRecv
            /\ UNCHANGED <<message, parsed, lookups>>
    /\ UNCHANGED <<reconnecting, ws, keepalive, message_id, stack>>
    /\ UNCHANGED texts

\* users.info answers the lookup of a userid of the text (line 147); a payload
\* that is no dict raises ValueError, which nothing in listen catches here
RefInfo(payload) ==
    /\ pc[Listener] = "users_info"
    /\ received' = received
    /\ IF IsDict(payload)
       THEN /\ known_users' = Store(known_users, Head(repl.userids), payload)
            /\ ReplaceAndParse(m, user_info,
                               Substitute(repl.message, Head(repl.userids), payload),
                               Tail(repl.userids), known_users', lookups)
            /\ UNCHANGED <<reconnecting, stack>>
       ELSE /\ known_users' = Rejected(known_users, Head(repl.userids), payload)
            /\ Raise(Listener)
            /\ UNCHANGED <<cws, m, user_info, repl, message, parsed, lookups>>
    /\ UNCHANGED <<ws, keepalive, message_id>>
    /\ UNCHANGED texts

\* opsdroid.parse(message) returns
ParseReturns ==
    /\ pc[Listener] = "parse"
    /\ parsed' = [parsed EXCEPT ![Len(parsed)].returned = TRUE]
    /\ message' = NoMessage
    /\ NextRecv
    /\ lookups' = <<>>
    /\ UNCHANGED <<reconnecting, ws, keepalive, message_id, stack, known_users,
                   received>>
    /\ UNCHANGED texts

(***************************************************************************)
(* Specification                                                           *)
(***************************************************************************)
Connect(t) ==
    \/ RtmStartOk(t)
    \/ RtmStartClientOSError(t)
    \/ RtmStartRaises(t)
    \/ WsConnectOk(t)
    \/ WsConnectRaises(t)
    \/ WsConnectOSError(t)
    \/ ReconnectSleepDone(t)

Keepalive(h) ==
    \/ KeepaliveWake(h)
    \/ SendOk(h)
    \/ SendFails(h)

Listen ==
    \/ \E frame \in Frames : RecvFrame(frame)
    \/ RecvClosed
    \/ RecvMalformed
    \/ \E payload \in Payloads : SenderInfo(payload)
    \/ \E payload \in Payloads : RefInfo(payload)
    \/ ParseReturns

Next ==
    \/ Start
    \/ \E t \in Tasks : Connect(t)
    \/ \E h \in HB : Keepalive(h)
    \/ Listen

Spec == Init /\ [][Next]_vars

(***************************************************************************)
(* SpecText: replace_usernames as a function of the text, applied twice    *)
(* to every text of up to MaxPieces pieces, a piece being a character or a *)
(* whole token, with every userid of the directory already in known_users  *)
(* (so that no lookup suspends or fails).                                  *)
(***************************************************************************)
TextIds == {<<"U">>, <<"U", "U">>}
\* display names: two that no token can contain, and one in capitals
TextNames == {<<"a">>, <<"b">>, <<"U">>}
Pieces == {<<c>> : c \in {"<", "@", ">", "U", "a"}} \cup {Token(id) : id \in TextIds}

RECURSIVE Concat(_)
Concat(ps) == IF ps = <<>> THEN <<>> ELSE Head(ps) \o Concat(Tail(ps))

BoundedTexts == {Concat(ps) : ps \in UNION {[1..n -> Pieces] : n \in 0..MaxPieces}}

InitText ==
    /\ texts \in {<<t>> : t \in BoundedTexts}
    /\ known_users \in [TextIds -> {[name |-> n] : n \in TextNames}]
    /\ reconnecting = FALSE
    /\ ws = 0
    /\ keepalive = 0
    /\ message_id = 0
    /\ pc = [t \in Tasks |-> IF t = Listener THEN "start" ELSE "none"]
    /\ stack = [t \in Tasks |-> <<>>]
    /\ cws = [t \in Tasks |-> 0]
    /\ m = NoFrame
    /\ user_info = NoInfo
    /\ repl = NoRepl
    /\ message = NoMessage
    /\ parsed = <<>>
    /\ received = 0
    /\ lookups = <<>>

\* replace_usernames(message) for the text obtained last, when all its
\* userids are in known_users: the loop runs to its end without suspending
ReplaceUsernames ==
    /\ Len(texts) < 3
    /\ LET r == ReplaceLoop(texts[Len(texts)], FindAll(texts[Len(texts)]),
                            known_users, <<>>)
       IN  /\ r.userids = <<>>
           /\ texts' = Append(texts, r.message)
    /\ UNCHANGED <<reconnecting, ws, keepalive, message_id, known_users, pc,
                   stack, cws, m, user_info, repl, message, parsed, received,
                   lookups>>

NextText == ReplaceUsernames

SpecText == InitText /\ [][NextText]_vars


(***************************************************************************)
(* SpecLive: the connector when connect() does not fail for good and the    *)
(* event loop is fair.  The two awaits of connect raise nothing but the     *)
(* ClientOSError connect retries after (at most MaxDepth times in a row),   *)
(* and every await of connect, reconnect and keepalive_websocket that can   *)
(* complete does complete.  What recv() and the lookups return, and when,   *)
(* is left to the service.                                                  *)
(***************************************************************************)
ConnectLive(t) ==
    \/ RtmStartOk(t)
    \/ RtmStartClientOSError(t)
    \/ WsConnectOk(t)
    \/ ReconnectSleepDone(t)

NextLive ==
    \/ Start
    \/ \E t \in Tasks : ConnectLive(t)
    \/ \E h \in HB : Keepalive(h)
    \/ Listen

Fairness ==
    /\ WF_vars(Start)
    /\ \A t \in Tasks : WF_vars(ConnectLive(t))
    /\ \A h \in HB : WF_vars(Keepalive(h))

SpecLive == Init /\ [][NextLive]_vars /\ Fairness

(***************************************************************************)
(* Claims                                                                  *)
(***************************************************************************)
\* a reconnect() call of task t has begun and not yet returned
InReconnect(t) == stack[t] # <<>>

\* C1: in every reachable state the reconnecting flag is True if and only if
\* at least one reconnect() call, whoever started it, has begun and not yet
\* returned.
C1_FlagIffReconnecting ==
    reconnecting <=> \E t \in Tasks : InReconnect(t)

\* C2: in no reachable state are a reconnect() call started by the listen loop
\* and one started by the heartbeat loop both in progress.
C2_AtMostOneReconnect ==
    ~ /\ InReconnect(Listener) /\ stack[Listener][1] = 5
      /\ \E h \in HB : InReconnect(h) /\ stack[h][1] = NoDelay

\* C3: a connection-closed signal raised by a receive makes the listen loop
\* invoke reconnect once, with delay 5 (every further call under it is
\* connect's own, with delay 10); when that call returns the loop is at
\* another receive, on the handle of the session, and a frame received there
\* is processed: a promoted frame leaves the loop in its lookups or at the
\* consumer, any other frame at the next receive.
C3_ClosedReconnectsOnceAndResumes ==
    [][/\ (pc[Listener] = "recv" /\ InReconnect(Listener)')
            => /\ stack'[Listener] = <<5>>
               /\ pc'[Listener] = "reconnect_sleep"
       /\ (InReconnect(Listener) /\ stack[Listener][1] = 5)
            => /\ \A i \in 2..Len(stack[Listener]) : stack[Listener][i] = 10
               /\ (~InReconnect(Listener)' /\ pc'[Listener] # "raised")
                    => pc'[Listener] = "recv" /\ cws'[Listener] = ws'
       /\ (pc[Listener] = "recv" /\ received' = received + 1)
            => pc'[Listener] \in {"recv", "sender_info", "users_info", "parse"}
      ]_vars

\* C3 witness: the heartbeat has never pinged, so the handle past the first
\* was installed by the reconnect of the listen loop, and a frame received on
\* it has reached the consumer.
C3_Witness ==
    /\ message_id = 0
    /\ ws >= 2
    /\ pc[Listener] = "parse"
    /\ cws[Listener] = ws

\* C4: when a heartbeat send fails, keepalive_websocket invokes reconnect once
\* with no delay if the flag is False and not at all if it is True, and in
\* both cases the heartbeat loop goes on to its next iteration (it does not
\* end).
C4_SendFailureReconnectsAndLoops ==
    [][\A h \in HB :
        /\ (pc[h] = "send" /\ pc'[h] # "send" /\ pc'[h] # "sleep")
             => ~reconnecting /\ stack'[h] = <<NoDelay>>
        /\ (pc[h] = "send" /\ pc'[h] # "send" /\ reconnecting)
             => ~InReconnect(h)' /\ pc'[h] = "sleep"
        /\ pc'[h] # "raised"
      ]_vars


\* C5: a user lookup that returns a payload that is no record, for the sender
\* or for a user reference of the text, makes the frame produce no message,
\* lets no exception escape listen and leaves the loop at its next receive.
C5_NonRecordLookupDropsFrame ==
    [][(SenderInfo(NonRecord) \/ RefInfo(NonRecord))
          => pc'[Listener] = "recv" /\ parsed' = parsed
      ]_vars

\* the calls of opsdroid.parse made for frame number n
ParseCalls(calls, n) == Cardinality({i \in 1..Len(calls) : calls[i].frame = n})

\* the sender of the frame in hand has been resolved to a record
SenderResolved == pc[Listener] \in {"users_info", "parse"}

\* the Message at the consumer is the one the frame in hand asks for
RightMessage ==
    /\ message.room = m.channel
    /\ message.user = known_users[m.user].name
    /\ ParseCalls(parsed, received) = 1

\* C6 as stated: every frame with type "message", a user and no bot_message
\* subtype whose sender lookup returns a record hands exactly one Message to
\* the consumer, with the frame's channel and the sender's display name:
\* when the processing of such a frame is over, one call was made for it.
C6_PromotedFrameDeliveredOnce ==
    [][/\ (pc'[Listener] = "parse" /\ pc[Listener] # "parse") => RightMessage'
       /\ (SenderResolved /\ ~SenderResolved') => ParseCalls(parsed', received') = 1
      ]_vars

\* C6 amended: the same, for the frames whose lookups of the user references
\* of the text return records too.
C6_ResolvedFrameDeliveredOnce ==
    [][/\ (pc'[Listener] = "parse" /\ pc[Listener] # "parse") => RightMessage'
       /\ (SenderResolved /\ ~SenderResolved' /\ ~RefInfo(NonRecord))
            => ParseCalls(parsed', received') = 1
      ]_vars

\* C6 witness: a frame whose sender and user reference were both looked up on
\* the network is at the consumer, under the sender's display name.
C6_Witness ==
    /\ pc[Listener] = "parse"
    /\ Len(lookups) >= 2
    /\ \A i \in 1..Len(lookups) : ~lookups[i].cached
    /\ message = [text |-> m.text, user |-> known_users[m.user].name,
                  room |-> m.channel]
    /\ ParseCalls(parsed, received) = 1

\* a frame the claim calls ineligible
C7_Ineligible(frame) ==
    \/ "type" \notin DOMAIN frame
    \/ frame.type # "message"
    \/ "user" \notin DOMAIN frame
    \/ ("subtype" \in DOMAIN frame /\ frame.subtype = "bot_message")

\* C7: receiving an ineligible frame produces no message, makes no user
\* lookup, changes neither the user cache nor the handle nor the flag, invokes
\* no reconnect and raises nothing: the loop is at its next receive.  The
\* frame a receive returns is either dropped on the spot (m' holds no frame)
\* or kept in m' to be processed: a dropped frame has none of these effects,
\* and a frame that is kept is not an ineligible one.
C7_IneligibleFrameHasNoEffect ==
    [][(pc[Listener] = "recv" /\ received' = received + 1)
          => IF m' = NoFrame
             THEN /\ parsed' = parsed /\ message' = message
                  /\ lookups' = <<>>
                  /\ known_users' = known_users
                  /\ ws' = ws /\ reconnecting' = reconnecting
                  /\ stack' = stack
                  /\ pc' = pc
             ELSE ~C7_Ineligible(m')
      ]_vars

\* C7 witness: frames were received, and nothing was looked up, cached or
\* delivered (a frame dropped for its sender's lookup leaves that lookup in
\* lookups).
C7_Witness ==
    /\ received >= 1
    /\ pc[Listener] = "recv"
    /\ lookups = <<>>
    /\ parsed = <<>>
    /\ DOMAIN known_users = {}
    /\ ~reconnecting /\ ws = 1

\* C8: the consumer gets the frames in the order they were received (on any
\* handle, so on one handle too): a call for a frame is made only after every
\* earlier call has returned, and no frame is handed over twice.
C8_DeliveredInOrder ==
    \A i, j \in 1..Len(parsed) :
        i < j => parsed[i].frame < parsed[j].frame /\ parsed[i].returned

\* C8 witness: the call for a second frame is in progress.
C8_Witness ==
    /\ Len(parsed) >= 2
    /\ pc[Listener] = "parse"
    /\ ~parsed[Len(parsed)].returned

\* the users.info calls made for userid while processing the frame in hand
CallsFor(userid) ==
    Cardinality({i \in 1..Len(lookups) :
                    lookups[i].userid = userid /\ lookups[i].calls = 1})

\* C9: resolving a cached identifier makes no network call and resolving an
\* uncached one makes exactly one; so within a frame no identifier costs more
\* than one call (a sender referenced in the text costs one), and two
\* distinct uncached identifiers cost one call each.
C9_OneCallPerUncachedId ==
    /\ \A i \in 1..Len(lookups) :
          /\ lookups[i].calls = IF lookups[i].cached THEN 0 ELSE 1
          /\ lookups[i].cached => lookups[i].userid \in DOMAIN known_users
          /\ (~lookups[i].cached /\ i < Len(lookups))
                => lookups[i].userid \in DOMAIN known_users
          /\ \A j \in 1..(i - 1) :
                lookups[j].userid = lookups[i].userid => lookups[i].cached
    /\ \A u \in Users : CallsFor(u) <= 1
    /\ pc[Listener] \in {"sender_info", "users_info"}
          => /\ ~lookups[Len(lookups)].cached
             /\ lookups[Len(lookups)].userid \notin DOMAIN known_users

\* C9 witness: the sender was looked up on the network and then found in the
\* cache when the text referred to it.
C9_Witness ==
    /\ pc[Listener] = "parse"
    /\ Len(lookups) = 2
    /\ lookups[1].userid = m.user /\ lookups[1].calls = 1
    /\ lookups[2].userid = m.user /\ lookups[2].calls = 0

\* C9 witness of the other case: two distinct identifiers, one call each.
C9_WitnessTwo ==
    /\ pc[Listener] = "parse"
    /\ \E i, j \in 1..Len(lookups) :
          /\ lookups[i].userid # lookups[j].userid
          /\ lookups[i].calls = 1 /\ lookups[j].calls = 1


\* the text s from position i on with every token <@ID> replaced by the
\* display name the directory dir gives ID, in one pass from left to right
RECURSIVE C10_Expected(_, _, _)
C10_Expected(s, i, dir) ==
    IF i > Len(s) THEN <<>>
    ELSE LET n == Cardinality({k \in 1..(Len(s) - i - 1) :
                      \A j \in 1..k : s[i + 1 + j] = "U"})
         IN  IF /\ i + 2 + n <= Len(s)
                /\ n >= 1
                /\ s[i] = "<" /\ s[i + 1] = "@" /\ s[i + 2 + n] = ">"
             THEN dir[SubSeq(s, i + 2, i + 1 + n)].name
                      \o C10_Expected(s, i + 3 + n, dir)
             ELSE <<s[i]>> \o C10_Expected(s, i + 1, dir)

\* s contains a token: "<@", one or more U, ">"
C10_HasToken(s) ==
    \E i \in 1..Len(s), n \in 1..Len(s) :
        /\ i + 2 + n <= Len(s)
        /\ s[i] = "<" /\ s[i + 1] = "@" /\ s[i + 2 + n] = ">"
        /\ \A j \in 1..n : s[i + 1 + j] = "U"

\* C10 as stated: for every text whose tokens all resolve in the directory,
\* replace_usernames replaces every occurrence of every token by the display
\* name of its ID, the result contains no residual token, and a second
\* application returns the result unchanged.
C10_ReplaceAllIdempotent ==
    /\ Len(texts) >= 2
         => /\ texts[2] = C10_Expected(texts[1], 1, known_users)
            /\ ~C10_HasToken(texts[2])
    /\ Len(texts) = 3 => texts[3] = texts[2]

\* a display name that cannot be part of a token: it has none of the
\* characters "<", "@", ">" and at least one character that is no capital
\* letter or digit
C10_PlainName(name) ==
    /\ \A i \in 1..Len(name) : name[i] \notin {"<", "@", ">"}
    /\ \E i \in 1..Len(name) : name[i] \notin IdChars

\* C10 amended: the same for the texts whose tokens all resolve to such
\* display names.
C10_ReplaceAllIdempotentPlainNames ==
    (\A i \in 1..Len(FindAllFrom(texts[1], 1)) :
         /\ FindAllFrom(texts[1], 1)[i] \in DOMAIN known_users
         /\ C10_PlainName(known_users[FindAllFrom(texts[1], 1)[i]].name))
      => C10_ReplaceAllIdempotent

\* C10 witness: a text with tokens of two userids, resolved to two different
\* plain names, has been rewritten and rewritten again.
C10_Witness ==
    /\ Len(texts) = 3
    /\ texts[1] = Token(<<"U">>) \o Token(<<"U", "U">>) \o <<"U">>
    /\ known_users[<<"U">>].name = <<"a">>
    /\ known_users[<<"U", "U">>].name = <<"b">>
    /\ texts[2] = <<"a", "b", "U">>
    /\ texts[3] = texts[2]

\* C11: the handshake is the call of slack.rtm.start() (line 46).  When it
\* fails with the network error connect catches, aiohttp's ClientOSError,
\* connect does not raise: reconnect is called with delay 10, and when that
\* call returns connect returns, so the task is back in the loop that called
\* it.  Any other failure of connect ends the task with the error: every
\* reconnect() the task was in has exited, no new one was called and the
\* handle is the one from before.
C11_NetworkFailureReconnectsOthersPropagate ==
    [][\A t \in Tasks :
         /\ pc[t] = "rtm_start"
              => pc'[t] \in {"rtm_start", "ws_connect", "reconnect_sleep", "raised"}
         /\ (pc[t] = "rtm_start" /\ pc'[t] = "reconnect_sleep")
              => /\ stack'[t] = Append(stack[t], 10)
                 /\ reconnecting'
                 /\ ws' = ws
         /\ (InReconnect(t) /\ stack[t][Len(stack[t])] = 10
               /\ ~InReconnect(t)' /\ pc'[t] # "raised")
              => pc'[t] = LoopTop(t) /\ ws' = ws + 1
         /\ (pc[t] \in {"rtm_start", "ws_connect"} /\ pc'[t] = "raised")
              => /\ stack'[t] = <<>>
                 /\ ws' = ws
                 /\ \A u \in Tasks \ {t} : stack'[u] = stack[u]
      ]_vars

\* C11 witness: the handshake of the first connect() failed with a
\* ClientOSError and reconnect(10) is sleeping.
C11_Witness ==
    /\ pc[Listener] = "reconnect_sleep"
    /\ stack[Listener] = <<10>>
    /\ ws = 0

\* the handles the connector holds: the one self.ws names and the ones a
\* recv() or send() that has not returned was called on.  connect never
\* closes the handle it replaces, so nothing else ends a handle's use.
C12_HandlesHeld ==
    {e \in 1..MaxEpoch :
        \/ e = ws
        \/ \E t \in Tasks : pc[t] \in {"recv", "send"} /\ cws[t] = e}

\* C12: in every reachable state at most one transport handle has been
\* opened and is still held, whether or not reconnect() calls of the listen
\* loop and of the heartbeat overlap.
C12_AtMostOneHandleHeld == Cardinality(C12_HandlesHeld) <= 1

\* C13: a reconnect() call ends in one of two ways.  It returns, and then
\* self.ws names a handle opened after the call began: the handle its own
\* connect() has just opened, newer than every handle before it, and the task
\* is back in its loop.  Or it raises, and the task ends.  Either way the flag
\* is False when the call has exited.
C13_ReconnectEndsFreshOrRaises ==
    [][/\ ws' >= ws
       /\ \A t \in Tasks :
            (InReconnect(t) /\ ~InReconnect(t)')
              => /\ ~reconnecting'
                 /\ \/ pc'[t] = "raised" /\ ws' = ws
                    \/ pc'[t] = LoopTop(t) /\ ws' = ws + 1
      ]_vars

\* C13 witness: a reconnect() has returned: a second handle is installed, no
\* reconnect() is in progress, the flag is False and listen receives on the
\* new handle.
C13_Witness ==
    /\ ws = 2
    /\ ~reconnecting
    /\ \A t \in Tasks : ~InReconnect(t)
    /\ pc[Listener] = "recv"
    /\ cws[Listener] = 2

\* C14: no network fault ends the task it happens in.  The faults are a
\* ClientOSError of the handshake, a network error of websockets.connect, a
\* failed send of the heartbeat and a ConnectionClosed of recv(); each is
\* followed by the task being in a reconnect() or back in its loop, never by
\* the exception leaving connect, listen or keepalive_websocket.
C14_NetworkFaultNeverEscapes ==
    [][/\ \A t \in Tasks :
            (RtmStartClientOSError(t) \/ WsConnectOSError(t))
              => pc'[t] # "raised"
       /\ \A h \in HB : SendFails(h) => pc'[h] # "raised"
       /\ RecvClosed => pc'[Listener] # "raised"
      ]_vars

\* C15: a heartbeat task that has started never ends: whatever the ping's
\* send and the reconnect() after a failed send do, the task is afterwards
\* asleep, sending or reconnecting, on its way to the next iteration.
C15_HeartbeatNeverEnds ==
    [][\A h \in HB : (pc[h] # "none" /\ ~Done(h)) => ~Done(h)']_vars

\* the heartbeat tasks that have started and not ended
C16_LiveHeartbeats == {h \in HB : pc[h] # "none" /\ ~Done(h)}

\* C16: at most one heartbeat task is live, and self.keepalive is its handle.
\* A heartbeat task starts only in a step in which connect() has opened a
\* handle and the stored task handle was None or done; it becomes the stored
\* handle.
C16_AtMostOneHeartbeat ==
    [][/\ Cardinality(C16_LiveHeartbeats') <= 1
       /\ \A h \in C16_LiveHeartbeats' : keepalive' = h
       /\ \A h \in HB :
            (h \notin C16_LiveHeartbeats /\ h \in C16_LiveHeartbeats')
              => /\ keepalive = 0 \/ pc[keepalive] = "raised"
                 /\ ws' = ws + 1
                 /\ pc'[h] = "sleep"
      ]_vars

\* C16 witness: connect() has succeeded three times, from the listen loop and
\* from the heartbeat after its failed ping, and one heartbeat task is live:
\* no second one was ever started beside it.
C16_Witness ==
    /\ ws = 3
    /\ message_id = 1
    /\ C16_LiveHeartbeats = {1}
    /\ keepalive = 1
    /\ pc[1] = "sleep"
    /\ pc[2] = "none"

\* the connect() calls the heartbeat may still succeed in: one per ping not
\* yet sent, and one if a ping or its reconnect() is under way
C17_HeartbeatConnects ==
    (MaxPings - message_id)
      + (IF \E h \in HB : pc[h] \in {"send", "rtm_start", "ws_connect",
                                     "reconnect_sleep"}
         THEN 1 ELSE 0)

\* recv() has raised ConnectionClosed while self.ws named handle k, and the
\* handles the model has left suffice for the heartbeat's reconnects and for
\* this one
C17_ClosedAt(k) ==
    /\ pc[Listener] = "reconnect_sleep"
    /\ stack[Listener] = <<5>>
    /\ ws = k
    /\ k + C17_HeartbeatConnects < MaxEpoch

\* C17: under SpecLive every ConnectionClosed the listen loop observes is
\* followed by listen being in recv() on a handle installed after it.
C17_ClosedLeadsToReceiveOnNewHandle ==
    \A k \in 1..(MaxEpoch - 1) :
        C17_ClosedAt(k) ~> (pc[Listener] = "recv" /\ cws[Listener] > k)

\* C17 witness: the heartbeat has not pinged, so the second handle is the one
\* listen's reconnect(5) installed after a ConnectionClosed, and listen
\* receives on it.
C17_Witness ==
    /\ pc[Listener] = "recv"
    /\ cws[Listener] = 2
    /\ ws = 2
    /\ message_id = 0
    /\ received = 0

\* C18: no step removes or changes an entry of known_users, and a sender
\* that is resolved from the cache (listen goes from recv() straight on with
\* the sender's record) gets the record the cache holds.
C18_CacheEntriesNeverChange ==
    [][/\ \A u \in DOMAIN known_users :
            u \in DOMAIN known_users' /\ known_users'[u] = known_users[u]
       /\ (pc[Listener] = "recv" /\ user_info' # NoInfo)
            => /\ m'.user \in DOMAIN known_users
               /\ user_info' = known_users[m'.user]
      ]_vars

\* C18 witness: the sender of the second frame was resolved from the cache,
\* which holds the entries of two userids, and the message carries the
\* cached name.
C18_Witness ==
    /\ received = 2
    /\ pc[Listener] = "parse"
    /\ lookups[1].cached
    /\ Cardinality(DOMAIN known_users) = 2
    /\ message.user = known_users[m.user].name

\* a value of the cache is a record: it has a name
C19_IsRecord(info) == "name" \in DOMAIN info

\* the userid listen is awaiting the users.info answer for
C19_Awaited == IF pc[Listener] = "sender_info" THEN m.user ELSE Head(repl.userids)

\* C19: known_users never holds a value that is no record.  A users.info
\* answer that is no record makes the lookup fail: listen drops the frame
\* (lookup of the sender) or ends with the error (lookup of a userid of the
\* text), no message is made, the cache is unchanged and still has no entry
\* for the userid, so the next lookup of that userid calls users.info again.
C19_NonRecordFailsAndIsNotCached ==
    [][/\ \A u \in DOMAIN known_users' : C19_IsRecord(known_users'[u])
       /\ \/ pc[Listener] = "sender_info" /\ pc'[Listener] = "recv"
          \/ pc[Listener] = "users_info" /\ pc'[Listener] = "raised"
          => /\ known_users' = known_users
             /\ C19_Awaited \notin DOMAIN known_users'
             /\ InfoCalls(C19_Awaited, known_users') = 1
             /\ parsed' = parsed
             /\ message' = message
      ]_vars

\* C19 witness: listen is back at recv() after one frame whose sender was
\* looked up with a network call; the frame was dropped and the cache has no
\* entry: the answer was no record.
C19_Witness ==
    /\ received = 1
    /\ pc[Listener] = "recv"
    /\ m = NoFrame
    /\ Len(lookups) = 1
    /\ lookups[1].calls = 1
    /\ lookups[1].userid \notin DOMAIN known_users
    /\ parsed = <<>>

\* C20: when recv() returns content that json.loads rejects, the error
\* leaves listen: the task ends in that step, in which no reconnect() is
\* called, no lookup is made and no message is made or delivered.  A listen
\* task that has ended stays ended: it receives nothing more and delivers
\* nothing more.
C20_MalformedFrameIsFatal ==
    [][/\ RecvMalformed
            => /\ pc'[Listener] = "raised"
               /\ stack' = stack
               /\ reconnecting' = reconnecting
               /\ ws' = ws
               /\ lookups' = lookups
               /\ known_users' = known_users
               /\ message' = message
               /\ parsed' = parsed
       /\ Done(Listener)
            => /\ Done(Listener)'
               /\ received' = received
               /\ cws'[Listener] = cws[Listener]
               /\ lookups' = lookups
               /\ parsed' = parsed
      ]_vars

\* C20 witness: listen has ended at its second recv(), after one frame that
\* was delivered, with the first handle still installed, no reconnect() in
\* progress and the heartbeat asleep.
C20_Witness ==
    /\ Done(Listener)
    /\ m = NoFrame
    /\ received = 1
    /\ Len(parsed) = 1
    /\ parsed[1].returned
    /\ ws = 1
    /\ cws[Listener] = 1
    /\ \A t \in Tasks : ~InReconnect(t)
    /\ pc[1] = "sleep"

=============================================================================
